---- MODULE Spec2Model ----
(***************************************************************************)
(* Caveat evaluation (pkg/caveats/eval.go): EvaluateCaveat,               *)
(* EvaluateCaveatWithConfig and the CaveatResult accessors, over the CEL  *)
(* program the code builds (state tracking, partial evaluation with no    *)
(* unknown patterns, optional cost limit).                                *)
(*                                                                         *)
(* Expressions are boolean caveats over declared parameters.  A leaf is a *)
(* parameter reference, a literal, or a map index by an absent key (a     *)
(* strict call that fails at run time whatever the context binds).        *)
(***************************************************************************)
EXTENDS Integers, Sequences, FiniteSets, TLC

\* ---------------------------------------------------------------- bounds
\* Largest number of AST nodes of a compiled caveat.
MaxNodes == 4
\* Largest MaxCost a caller passes in an EvaluationConfig.
MaxCostBound == 2
\* Largest number of AST nodes of a caveat shared by concurrent callers.
ConcMaxNodes == 3

\* Declared parameters of the caveat environment (all of boolean type).
Params == {"a", "b"}
\* Keys the caveat looks up in a map that lacks them.
Keys == {"k", "no such attribute"}
\* The name every compiled caveat of the model carries.
CaveatName == "caveat"
Callers == {"c1", "c2"}

\* ---------------------------------------------------------------- AST
Const(v) == [op |-> "const", name |-> "", val |-> v, args |-> <<>>]
Ident(n) == [op |-> "ident", name |-> n, val |-> FALSE, args |-> <<>>]
Index(k) == [op |-> "index", name |-> k, val |-> FALSE, args |-> <<>>]
Call(fn, as) == [op |-> fn, name |-> "", val |-> FALSE, args |-> as]

Leaves == {Ident(p) : p \in Params} \cup {Index(k) : k \in Keys}

\* Expressions of exactly n nodes: !x, x && y, x || y, c ? x : y over Leaves.
RECURSIVE ExprsOfSize(_)
ExprsOfSize(n) ==
  IF n = 1 THEN Leaves
  ELSE {Call("not", <<x>>) : x \in ExprsOfSize(n - 1)}
       \cup UNION {UNION {{Call(fn, <<x, y>>) : x \in ExprsOfSize(i),
                                                 y \in ExprsOfSize(n - 1 - i)}
                          : fn \in {"and", "or"}}
                   : i \in 1..(n - 2)}
       \cup UNION {UNION {{Call("cond", <<c, x, y>>) : c \in ExprsOfSize(i),
                                                       x \in ExprsOfSize(j),
                                                       y \in ExprsOfSize(n - 1 - i - j)}
                          : j \in 1..(n - 2 - i)}
                   : i \in 1..(n - 3)}

ExprsUpTo(n) == UNION {ExprsOfSize(i) : i \in 1..n}

\* Node ids: unique per position (the parser numbers nodes; only uniqueness
\* matters).  The root is 1, the k-th argument of node n is 4n + k.
RootID == 1
ArgID(id, k) == 4 * id + k

RECURSIVE IdentNames(_)
IdentNames(e) ==
  IF e.op = "ident" THEN {e.name}
  ELSE UNION {IdentNames(e.args[i]) : i \in DOMAIN e.args}

\* ---------------------------------------------------------------- values
\* ref.Val: a Bool, or an Err carrying its message.  A message is kept as
\* the parts its text is built from:
\*   "no such attribute: id: <id>, names: [<names>]"  (absent attribute)
\*   "no such key: <key>"                              (absent map key)
NoMsg == [head |-> "", key |-> "", id |-> 0, names |-> <<>>]
\* The names of an attribute as the message prints them: separated by spaces.
RECURSIVE JoinNames(_)
JoinNames(names) ==
  IF Len(names) <= 1 THEN names
  ELSE <<Head(names), " ">> \o JoinNames(Tail(names))

NoSuchAttributeMsg(id, names) ==
  [head |-> "no such attribute", key |-> "", id |-> id, names |-> JoinNames(names)]
NoSuchKeyMsg(k) == [head |-> "no such key", key |-> k, id |-> 0, names |-> <<>>]
CostLimitMsg ==
  [head |-> "operation cancelled: actual cost limit exceeded", key |-> "",
   id |-> 0, names |-> <<>>]

BoolVal(b) == [kind |-> "bool", b |-> b, msg |-> NoMsg]
ErrVal(m) == [kind |-> "err", b |-> FALSE, msg |-> m]
NilVal == [kind |-> "nil", b |-> FALSE, msg |-> NoMsg]
True == BoolVal(TRUE)
False == BoolVal(FALSE)
IsError(v) == v.kind = "err"
IsBool(v) == v.kind = "bool"

\* ---------------------------------------------------------------- binding
\* cel.PartialVars(contextValues), called with no attribute patterns: the
\* activation holds the context and declares nothing unknown.
PartialVars(contextValues) == [vars |-> contextValues, unknownPatterns |-> {}]

\* env.Program(ast, opts...): the options of lines 89-95.
Program(env, ast, opts) == [env |-> env, ast |-> ast, opts |-> opts]

\* Resolution of an absolute attribute: the bound value, or the error
\* "no such attribute: id: .., names: [..]" for a name the activation lacks.
Resolve(name, id, pvars) ==
  IF name \in DOMAIN pvars.vars
    THEN BoolVal(pvars.vars[name])
    ELSE ErrVal(NoSuchAttributeMsg(id, <<name>>))

\* ---------------------------------------------------------------- interpreter
\* Accumulator threaded through one evaluation: the value of the node just
\* evaluated, the cost counter, the tracked state (node id -> value) and
\* whether the cost limit cancelled the evaluation.
NewEval == [val |-> NilVal, cost |-> 0, state |-> <<>>, cancelled |-> FALSE]

\* The observers run after a node is evaluated: state tracking records the
\* value, cost tracking charges the node and cancels once over the limit.
Observe(acc, id, v, units, opts) ==
  LET cost2 == acc.cost + units
  IN IF opts.costLimit /\ cost2 > opts.maxCost
       THEN [val |-> NilVal, cost |-> cost2, state |-> acc.state, cancelled |-> TRUE]
       ELSE [val |-> v, cost |-> cost2, state |-> acc.state @@ (id :> v),
             cancelled |-> FALSE]

\* !x: a strict call, an error argument is returned as it is.
LogicalNot(v) == IF IsBool(v) THEN BoolVal(~v.b) ELSE v

\* AndVal with the left operand's error returned before the right operand is
\* looked at.
AndValLeftErrorFirst(l, r) ==
  IF IsError(l) THEN l
  ELSE IF IsBool(r) /\ ~r.b THEN False
  ELSE IF IsBool(l) /\ IsBool(r) THEN True
  ELSE r

\* x && y once both operands are evaluated and the left one is not false.
AndVal(l, r) ==
  IF IsBool(r) /\ ~r.b THEN False
  ELSE IF IsBool(l) /\ IsBool(r) THEN True
  ELSE IF IsError(l) THEN l
  ELSE r

\* x || y once both operands are evaluated and the left one is not true.
OrVal(l, r) ==
  IF IsBool(r) /\ r.b THEN True
  ELSE IF IsBool(l) /\ IsBool(r) THEN False
  ELSE IF IsError(l) THEN l
  ELSE r

\* The left operand alone decides: false for &&, true for ||.
ShortCircuits(fn, l) == IsBool(l) /\ l.b = (fn = "or")

RECURSIVE Interpret(_, _, _, _, _)
Interpret(e, id, pvars, acc, opts) ==
  CASE e.op = "const" -> Observe(acc, id, BoolVal(e.val), 0, opts)
    [] e.op = "ident" -> Observe(acc, id, Resolve(e.name, id, pvars), 1, opts)
    [] e.op = "index" -> Observe(acc, id, ErrVal(NoSuchKeyMsg(e.name)), 1, opts)
    [] e.op = "not" ->
         LET x == Interpret(e.args[1], ArgID(id, 1), pvars, acc, opts)
         IN IF x.cancelled THEN x
            ELSE Observe(x, id, LogicalNot(x.val), 1, opts)
    [] e.op \in {"and", "or"} ->
         LET l == Interpret(e.args[1], ArgID(id, 1), pvars, acc, opts)
             r == Interpret(e.args[2], ArgID(id, 2), pvars, l, opts)
         IN IF l.cancelled THEN l
            ELSE IF ShortCircuits(e.op, l.val) THEN Observe(l, id, l.val, 0, opts)
            ELSE IF r.cancelled THEN r
            ELSE Observe(r, id,
                         IF e.op = "and" THEN AndVal(l.val, r.val)
                                         ELSE OrVal(l.val, r.val),
                         0, opts)
    [] e.op = "cond" ->
         LET c == Interpret(e.args[1], ArgID(id, 1), pvars, acc, opts)
             k == IF c.val.b THEN 2 ELSE 3
             x == Interpret(e.args[k], ArgID(id, k), pvars, c, opts)
         IN IF c.cancelled THEN c
            ELSE IF ~IsBool(c.val) THEN Observe(c, id, c.val, 0, opts)
            ELSE IF x.cancelled THEN x
            ELSE Observe(x, id, x.val, 0, opts)

\* prg.Eval(pvars): `val, details, nil` for a boolean, `val, details, err`
\* for an error value, `nil, details, err` when the evaluation is cancelled.
ProgramEval(prg, pvars) ==
  LET r == Interpret(prg.ast, RootID, pvars, NewEval, prg.opts)
  IN IF r.cancelled
       THEN [val |-> NilVal, details |-> r.state, err |-> CostLimitMsg, cost |-> r.cost]
       ELSE [val |-> r.val, details |-> r.state,
             err |-> IF IsError(r.val) THEN r.val.msg ELSE NoMsg, cost |-> r.cost]

\* ---------------------------------------------------------------- handler
\* *EvaluationConfig: nil, or a MaxCost.
NilConfig == [nil |-> TRUE, MaxCost |-> 0]
Config(k) == [nil |-> FALSE, MaxCost |-> k]
Configs == {Config(k) : k \in 0..MaxCostBound}

\* Context values: any binding of some of the declared parameters.
Contexts == UNION {[S -> BOOLEAN] : S \in SUBSET Params}

\* CelOpts with the cost limit left out of the options.
CelOptsNoCostLimit(config) ==
  [trackState |-> TRUE, partialEval |-> TRUE, costLimit |-> FALSE,
   maxCost |-> config.MaxCost]

\* The program options: state tracking, partial evaluation, and the cost
\* limit when the config asks for one.
CelOpts(config) ==
  [trackState |-> TRUE, partialEval |-> TRUE,
   costLimit |-> (~config.nil /\ config.MaxCost > 0),
   maxCost |-> config.MaxCost]

\* strings.Contains(err.Error(), s), over the parts of the message.
Contains(msg, s) == msg.head = s \/ msg.key = s

\* noSuchAttributeErrMessage.FindStringSubmatch(err.Error()): the whole text,
\* the id and the text between the brackets; <<>> when the text is not of
\* the form "no such attribute: id: .., names: [..]" with something between
\* the brackets.
FindStringSubmatch(msg) ==
  IF msg.head = "no such attribute" /\ Len(msg.names) > 0
    THEN <<msg, msg.id, msg.names>>
    ELSE <<>>

\* strings.Split(text, " "): the names the brackets hold, separated by spaces.
Split(namesText) == SelectSeq(namesText, LAMBDA t : t # " ")

NilResult ==
  [nil |-> TRUE, val |-> NilVal, details |-> <<>>, parentCaveat |-> "",
   contextValues |-> <<>>, missingVarNames |-> <<>>, isPartial |-> FALSE]

CaveatResult(val, details, parent, contextValues, missingVarNames, isPartial) ==
  [nil |-> FALSE, val |-> val, details |-> details, parentCaveat |-> parent,
   contextValues |-> contextValues, missingVarNames |-> missingVarNames,
   isPartial |-> isPartial]

\* EvaluateCaveatWithConfig(caveat, contextValues, config), where `ref` names
\* the caveat the result points back to.
EvaluateCaveatWithConfig(caveat, ref, contextValues, config) ==
  LET prg == Program(caveat.celEnv, caveat.ast, CelOpts(config))
      pvars == PartialVars(contextValues)
      out == ProgramEval(prg, pvars)
      found == FindStringSubmatch(out.err)
  IN IF out.err # NoMsg
       THEN IF out.val # NilVal /\ Contains(out.err, "no such attribute")
              THEN IF found # <<>>
                     THEN [result |-> CaveatResult(out.val, out.details, ref,
                                                   contextValues, Split(found[3]), TRUE),
                           err |-> NoMsg]
                     ELSE [result |-> CaveatResult(out.val, out.details, ref,
                                                   contextValues, <<>>, TRUE),
                           err |-> NoMsg]
              ELSE [result |-> NilResult, err |-> out.err]
       ELSE [result |-> CaveatResult(out.val, out.details, ref, contextValues,
                                     <<>>, FALSE),
             err |-> NoMsg]

\* EvaluateCaveat(caveat, contextValues).
EvaluateCaveat(caveat, ref, contextValues) ==
  EvaluateCaveatWithConfig(caveat, ref, contextValues, NilConfig)

\* ---------------------------------------------------------------- accessors
NotPartialErr == [head |-> "result is fully evaluated", key |-> "", id |-> 0,
                  names |-> <<>>]

Value(cr) == IF cr.isPartial THEN FALSE ELSE cr.val.b

IsPartial(cr) == cr.isPartial

ContextValues(cr) == cr.contextValues

\* MissingVarNames without the isPartial test.
MissingVarNamesUnchecked(cr) == [names |-> cr.missingVarNames, err |-> NoMsg]

MissingVarNames(cr) ==
  IF ~cr.isPartial
    THEN [names |-> <<>>, err |-> NotPartialErr]
    ELSE [names |-> cr.missingVarNames, err |-> NoMsg]

\* interpreter.PruneAst(expr, state): a node whose tracked value is neither
\* unknown nor an error becomes a literal; a connective whose value is
\* unknown and one operand known is replaced by the other operand;
\* otherwise the arguments are pruned in place.
IsUnknown(v) == v.kind = "unknown"
IsUnknownOrError(v) == IsUnknown(v) \/ IsError(v)
ExistsWithUnknownValue(state, id) == id \in DOMAIN state /\ IsUnknown(state[id])
ExistsWithKnownValue(state, id) == id \in DOMAIN state /\ ~IsUnknown(state[id])

RECURSIVE PruneAst(_, _, _)
\* PruneAst turning every tracked node into a literal, errors included.
PruneAstFoldsErrors(e, id, state) ==
  IF id \in DOMAIN state
    THEN Const(state[id].b)
    ELSE [e EXCEPT !.args = [i \in DOMAIN e.args |->
                               PruneAst(e.args[i], ArgID(id, i), state)]]

PruneAst(e, id, state) ==
  IF id \in DOMAIN state /\ ~IsUnknownOrError(state[id])
    THEN Const(state[id].b)
  ELSE IF e.op \in {"and", "or"} /\ ExistsWithUnknownValue(state, id)
          /\ ExistsWithKnownValue(state, ArgID(id, 1))
    THEN PruneAst(e.args[2], ArgID(id, 2), state)
  ELSE IF e.op \in {"and", "or"} /\ ExistsWithUnknownValue(state, id)
          /\ ExistsWithKnownValue(state, ArgID(id, 2))
    THEN PruneAst(e.args[1], ArgID(id, 1), state)
  ELSE [e EXCEPT !.args = [i \in DOMAIN e.args |->
                             PruneAst(e.args[i], ArgID(id, i), state)]]

CompiledCaveat(celEnv, ast, name) == [celEnv |-> celEnv, ast |-> ast, name |-> name]
NilCaveat == CompiledCaveat({}, Const(FALSE), "")

\* PartialValue storing the pruned expression in the parent caveat.
ParentPrunedInPlace(cr, parent) ==
  IF ~cr.isPartial THEN parent
  ELSE [parent EXCEPT !.ast = PruneAst(parent.ast, RootID, cr.details)]

\* The caveat cr.parentCaveat points to once PartialValue has returned: the
\* pruned expression goes into a new CompiledCaveat, the parent is only read.
ParentAfterPartialValue(cr, parent) == parent

\* PartialValue handing out the parent's expression as it is.
PartialValueUnpruned(cr, parent) ==
  IF ~cr.isPartial
    THEN [caveat |-> NilCaveat, err |-> NotPartialErr]
    ELSE [caveat |-> CompiledCaveat(parent.celEnv, parent.ast, parent.name),
          err |-> NoMsg]

\* cr.PartialValue(), `parent` being the caveat cr.parentCaveat points to.
PartialValue(cr, parent) ==
  IF ~cr.isPartial
    THEN [caveat |-> NilCaveat, err |-> NotPartialErr]
    ELSE [caveat |-> CompiledCaveat(parent.celEnv,
                                    PruneAst(parent.ast, RootID, cr.details),
                                    parent.name),
          err |-> NoMsg]

\* ---------------------------------------------------------------- state
VARIABLES
  caveat,     \* the compiled caveat every caller evaluates
  pc,         \* per caller: idle, evaluated, read, pruned, reevaluated
  args,       \* per caller: the context and config of its evaluation call
  ret,        \* per caller: what the evaluation call returned (result, err)
  got,        \* per caller: what the accessors of the result returned
  partial,    \* per caller: what PartialValue returned (caveat, err)
  args2,      \* per caller: the context the residual was evaluated with
  ret2        \* per caller: what evaluating the residual returned

vars == <<caveat, pc, args, ret, got, partial, args2, ret2>>

NoArgs == [contextValues |-> <<>>, config |-> NilConfig]
NoRet == [result |-> NilResult, err |-> NoMsg]
NoGot == [value |-> FALSE, isPartial |-> FALSE, contextValues |-> <<>>,
          missingVarNames |-> [names |-> <<>>, err |-> NoMsg]]
NoPartial == [caveat |-> NilCaveat, err |-> NoMsg]

InitWith(exprs) ==
  /\ caveat \in {CompiledCaveat(Params, e, CaveatName) : e \in exprs}
  /\ pc = [c \in Callers |-> "idle"]
  /\ args = [c \in Callers |-> NoArgs]
  /\ ret = [c \in Callers |-> NoRet]
  /\ got = [c \in Callers |-> NoGot]
  /\ partial = [c \in Callers |-> NoPartial]
  /\ args2 = [c \in Callers |-> NoArgs]
  /\ ret2 = [c \in Callers |-> NoRet]

Init == InitWith(ExprsUpTo(MaxNodes))

\* A caller evaluates the caveat with a context of its own and no config.
CallEvaluateCaveat(c) ==
  /\ pc[c] = "idle"
  /\ \E contextValues \in Contexts :
       /\ args' = [args EXCEPT ![c] = [contextValues |-> contextValues,
                                       config |-> NilConfig]]
       /\ ret' = [ret EXCEPT ![c] = EvaluateCaveat(caveat, "caveat", contextValues)]
  /\ pc' = [pc EXCEPT ![c] = "evaluated"]
  /\ UNCHANGED <<caveat, got, partial, args2, ret2>>

\* A caller evaluates the caveat with a context and a config of its own.
CallEvaluateCaveatWithConfig(c) ==
  /\ pc[c] = "idle"
  /\ \E contextValues \in Contexts, config \in Configs :
       /\ args' = [args EXCEPT ![c] = [contextValues |-> contextValues,
                                       config |-> config]]
       /\ ret' = [ret EXCEPT ![c] =
                    EvaluateCaveatWithConfig(caveat, "caveat", contextValues, config)]
  /\ pc' = [pc EXCEPT ![c] = "evaluated"]
  /\ UNCHANGED <<caveat, got, partial, args2, ret2>>

\* The caller reads the result it was given, whatever its kind.
ReadResult(c) ==
  /\ pc[c] = "evaluated"
  /\ ~ret[c].result.nil
  /\ got' = [got EXCEPT ![c] =
               [value |-> Value(ret[c].result),
                isPartial |-> IsPartial(ret[c].result),
                contextValues |-> ContextValues(ret[c].result),
                missingVarNames |-> MissingVarNames(ret[c].result)]]
  /\ pc' = [pc EXCEPT ![c] = "read"]
  /\ UNCHANGED <<caveat, args, ret, partial, args2, ret2>>

\* The caller asks the result for its partially evaluated caveat.
CallPartialValue(c) ==
  /\ pc[c] \in {"evaluated", "read"}
  /\ ~ret[c].result.nil
  /\ partial' = [partial EXCEPT ![c] = PartialValue(ret[c].result, caveat)]
  /\ caveat' = ParentAfterPartialValue(ret[c].result, caveat)
  /\ pc' = [pc EXCEPT ![c] = "pruned"]
  /\ UNCHANGED <<args, ret, got, args2, ret2>>

\* The caller evaluates the partially evaluated caveat once it has values
\* for the declared parameters its first context lacked.
EvaluateResidual(c) ==
  /\ pc[c] = "pruned"
  /\ partial[c].err = NoMsg
  /\ \E more \in [partial[c].caveat.celEnv \ DOMAIN args[c].contextValues -> BOOLEAN] :
       LET merged == args[c].contextValues @@ more
       IN /\ args2' = [args2 EXCEPT ![c] = [contextValues |-> merged,
                                            config |-> NilConfig]]
          /\ ret2' = [ret2 EXCEPT ![c] =
                        EvaluateCaveat(partial[c].caveat, "partial", merged)]
  /\ pc' = [pc EXCEPT ![c] = "reevaluated"]
  /\ UNCHANGED <<caveat, args, ret, got, partial>>

\* The caller drops everything the call gave it.
Release(c) ==
  /\ pc[c] # "idle"
  /\ pc' = [pc EXCEPT ![c] = "idle"]
  /\ args' = [args EXCEPT ![c] = NoArgs]
  /\ ret' = [ret EXCEPT ![c] = NoRet]
  /\ got' = [got EXCEPT ![c] = NoGot]
  /\ partial' = [partial EXCEPT ![c] = NoPartial]
  /\ args2' = [args2 EXCEPT ![c] = NoArgs]
  /\ ret2' = [ret2 EXCEPT ![c] = NoRet]
  /\ UNCHANGED caveat

Step(c) ==
  \/ CallEvaluateCaveat(c)
  \/ CallEvaluateCaveatWithConfig(c)
  \/ ReadResult(c)
  \/ CallPartialValue(c)
  \/ EvaluateResidual(c)
  \/ Release(c)

\* One caller, call after call.
Next == Step("c1")

Spec == Init /\ [][Next]_vars

\* Several callers sharing the compiled caveat, their calls interleaved.
InitConc == InitWith(ExprsUpTo(ConcMaxNodes))

NextConc ==
  \E c \in Callers :
    \/ CallEvaluateCaveat(c)
    \/ CallEvaluateCaveatWithConfig(c)
    \/ CallPartialValue(c)
    \/ Release(c)

SpecConc == InitConc /\ [][NextConc]_vars

\* ---------------------------------------------------------------- properties
\* What one evaluation looks like from outside.
Called(c) == pc[c] # "idle"
ReturnedPartial(r) == r.err = NoMsg /\ ~r.result.nil /\ IsPartial(r.result)
ReturnedDecided(r) == r.err = NoMsg /\ ~r.result.nil /\ ~IsPartial(r.result)
CostLimited(config) == ~config.nil /\ config.MaxCost > 0

\* The evaluation of an expression under a context with no cost limit.
Unlimited(e, contextValues) ==
  Interpret(e, RootID, PartialVars(contextValues), NewEval, CelOpts(NilConfig))

\* The parameters an evaluation read while the context lacked them, in the
\* order it met them (arguments are evaluated left to right).
RECURSIVE UnknownReads(_, _, _)
UnknownReads(e, id, state) ==
  IF id \notin DOMAIN state THEN <<>>
  ELSE IF e.op = "ident"
    THEN IF IsError(state[id]) THEN <<e.name>> ELSE <<>>
  ELSE IF Len(e.args) = 0 THEN <<>>
  ELSE IF Len(e.args) = 1 THEN UnknownReads(e.args[1], ArgID(id, 1), state)
  ELSE IF Len(e.args) = 2
    THEN UnknownReads(e.args[1], ArgID(id, 1), state)
         \o UnknownReads(e.args[2], ArgID(id, 2), state)
  ELSE UnknownReads(e.args[1], ArgID(id, 1), state)
       \o UnknownReads(e.args[2], ArgID(id, 2), state)
       \o UnknownReads(e.args[3], ArgID(id, 3), state)

RECURSIVE Distinct(_)
Distinct(q) ==
  IF q = <<>> THEN <<>>
  ELSE LET front == Distinct(SubSeq(q, 1, Len(q) - 1))
           last == q[Len(q)]
       IN IF \E i \in DOMAIN front : front[i] = last THEN front
          ELSE Append(front, last)

Range(q) == {q[i] : i \in DOMAIN q}

\* Every error the evaluation met is an absent parameter.
OnlyMissing(state) ==
  \A id \in DOMAIN state :
    IsError(state[id]) => state[id].msg.head = "no such attribute" 

\* C1: with no cost limit, x && y is decided false as soon as either operand
\* evaluates to false and x || y is decided true as soon as either operand
\* evaluates to true, whatever the other operand is blocked on; a partial
\* result is returned only when no operand forces the outcome.
C1_ShortCircuit ==
  \A c \in Callers :
    (Called(c) /\ ~CostLimited(args[c].config) /\ caveat.ast.op \in {"and", "or"}) =>
      LET forcing == BoolVal(caveat.ast.op = "or")
          forced == \E i \in {1, 2} :
                      Unlimited(caveat.ast.args[i], args[c].contextValues).val = forcing
      IN /\ forced => /\ ReturnedDecided(ret[c])
                      /\ Value(ret[c].result) = forcing.b
         /\ ReturnedPartial(ret[c]) => ~forced

\* C1 witness: the left operand of && is blocked on an absent parameter, the
\* right one is false, and the call returned a decided false.
C1_Witness ==
  /\ Called("c1") /\ args["c1"].config.nil
  /\ caveat.ast.op = "and"
  /\ IsError(Unlimited(caveat.ast.args[1], args["c1"].contextValues).val)
  /\ Unlimited(caveat.ast.args[1], args["c1"].contextValues).val.msg.head
       = "no such attribute"
  /\ Unlimited(caveat.ast.args[2], args["c1"].contextValues).val = False
  /\ ReturnedDecided(ret["c1"])
  /\ Value(ret["c1"].result) = FALSE

C3_MissingReported ==
  \A c \in Callers :
    Called(c) /\ ~CostLimited(args[c].config) =>
      LET free == Unlimited(caveat.ast, args[c].contextValues)
          reads == Range(UnknownReads(caveat.ast, RootID, free.state))
      IN (~IsBool(free.val) /\ OnlyMissing(free.state) /\ reads # {}) =>
           /\ ReturnedPartial(ret[c])
           /\ MissingVarNames(ret[c].result).err = NoMsg
           /\ reads \subseteq Range(MissingVarNames(ret[c].result).names)

\* C4: a call whose context binds every declared parameter never returns a
\* partial result.
C4_FullContextNeverPartial ==
  \A c \in Callers :
    (Called(c) /\ DOMAIN args[c].contextValues = caveat.celEnv) =>
      ~ReturnedPartial(ret[c])

\* C5: with MaxCost = k > 0, an evaluation that needs more than k cost units
\* under the given context returns the cost-limit error and no result, also
\* when parameters are absent; with a nil config or MaxCost = 0 the cost
\* limit never ends a call.
C5_CostBounded ==
  \A c \in Callers :
    Called(c) =>
      LET need == Unlimited(caveat.ast, args[c].contextValues).cost
      IN /\ (CostLimited(args[c].config) /\ need > args[c].config.MaxCost) =>
              /\ ret[c].err = CostLimitMsg
              /\ ret[c].result.nil
         /\ ~CostLimited(args[c].config) => ret[c].err # CostLimitMsg

\* C5 witness: a call with a cost limit smaller than what the evaluation
\* needs and a context lacking a parameter the caveat reads ended with the
\* cost-limit error.
C5_Witness ==
  /\ Called("c1")
  /\ CostLimited(args["c1"].config)
  /\ Unlimited(caveat.ast, args["c1"].contextValues).cost > args["c1"].config.MaxCost
  /\ IdentNames(caveat.ast) \ DOMAIN args["c1"].contextValues # {}
  /\ ret["c1"].err = CostLimitMsg
  /\ ret["c1"].result.nil

\* C6: on every result, MissingVarNames and PartialValue fail with "result
\* is fully evaluated" exactly when IsPartial is false, and Value is false
\* whenever IsPartial is true.
C6_Accessors ==
  \A c \in Callers :
    /\ pc[c] = "read" =>
         /\ got[c].isPartial = ret[c].result.isPartial
         /\ (got[c].missingVarNames.err = NotPartialErr) = ~got[c].isPartial
         /\ (got[c].missingVarNames.err = NoMsg) = got[c].isPartial
         /\ got[c].isPartial => got[c].value = FALSE
    /\ pc[c] = "pruned" =>
         /\ (partial[c].err = NotPartialErr) = ~IsPartial(ret[c].result)
         /\ (partial[c].err = NoMsg) = IsPartial(ret[c].result)
         /\ IsPartial(ret[c].result) => partial[c].caveat # NilCaveat

\* C6 witness: the accessors were called on a decided result and both
\* MissingVarNames and PartialValue answered with the error.
C6_Witness ==
  /\ pc["c1"] = "pruned"
  /\ got["c1"] # NoGot
  /\ ~got["c1"].isPartial
  /\ got["c1"].missingVarNames.err = NotPartialErr
  /\ partial["c1"].err = NotPartialErr

C8_AllMissingNames ==
  \A c \in Callers :
    (Called(c) /\ ReturnedPartial(ret[c])) =>
      ret[c].result.missingVarNames
        = Distinct(UnknownReads(caveat.ast, RootID, ret[c].result.details))

\* The residual against the parent, node by node: a node the evaluation
\* decided is a literal of its value, any other node is kept with its
\* arguments treated the same way.
RECURSIVE Folded(_, _, _, _)
Folded(e, id, state, r) ==
  IF id \in DOMAIN state /\ IsBool(state[id])
    THEN r = Const(state[id].b)
    ELSE /\ r.op = e.op /\ r.name = e.name
         /\ Len(r.args) = Len(e.args)
         /\ \A i \in DOMAIN e.args : Folded(e.args[i], ArgID(id, i), state, r.args[i])

\* The parameters the residual references at nodes the evaluation visited.
RECURSIVE VisitedIdents(_, _, _)
VisitedIdents(r, id, state) ==
  IF id \notin DOMAIN state THEN {}
  ELSE IF r.op = "ident" THEN {r.name}
  ELSE UNION {VisitedIdents(r.args[i], ArgID(id, i), state) : i \in DOMAIN r.args}

C10_Outcomes ==
  \A c \in Callers :
    Called(c) =>
      LET free == Unlimited(caveat.ast, args[c].contextValues)
      IN /\ ret[c].result.nil = (ret[c].err # NoMsg)
         /\ (~CostLimited(args[c].config) /\ IsError(free.val)
             /\ free.val.msg.head = "no such attribute") => ReturnedPartial(ret[c])
         /\ (IsError(free.val) /\ free.val.msg.head # "no such attribute") =>
              /\ ret[c].err # NoMsg
              /\ ~ReturnedPartial(ret[c])

====
